---- MODULE Spec2Model ----
(***************************************************************************)
(* imagemin-cli (src/cli.js): plugin option normalisation, plugin loading, *)
(* and the routing of one invocation to run (buffer / file paths) or to    *)
(* runOverwrite (in-place rewriting).                                      *)
(***************************************************************************)
EXTENDS Integers, Sequences, FiniteSets, TLC

VARIABLES
    cliInput,       \* cli.input: the positional arguments (file paths)
    isTTY,          \* process.stdin.isTTY, as read by the check of line 164
    outDir,         \* cli.flags.outDir is given
    overwrite,      \* cli.flags.overwrite
    plugin,         \* cli.flags.plugin, a JS array value
    pc,             \* position of the main flow
    fn,             \* the function the main IIFE called: "none", "run", "runOverwrite"
    started,        \* run paths entered: subset of {"buffer", "files", "overwrite"}
    pluginOptions,  \* normalizePluginOptions(plugin), a JS array of [name, options]
    loads,          \* per plugin: "pending", "loaded", "failed"
    resolved,       \* indices of the loads that resolved, in completion order
    plugins,        \* the handles passed to imagemin, in order
    executorCalls,  \* number of calls of imagemin / imagemin.buffer
    spinner,        \* "idle", "spinning", "stopped"
    stdout,         \* what process.stdout received, in order
    stderr,         \* what process.stderr received, in order
    disk,           \* content of each input file on disk
    dest,           \* files written beneath the output directory
    files,          \* the result list imagemin returned to run
    tasks,          \* runOverwrite: one record per file whose transform was issued
    errors,         \* failures surfaced so far
    exitCode,       \* -1 while the process lives, else its exit status
    replayArg,      \* how pluginOptions was handed back: "none", "pairs", "mappings"
    replay          \* normalizePluginOptions applied to that

vars == <<cliInput, isTTY, outDir, overwrite, plugin, pc, fn, started,
          pluginOptions, loads, resolved, plugins, executorCalls, spinner,
          stdout, stderr, disk, dest, files, tasks, errors, exitCode,
          replayArg, replay>>

\* ---------------------------------------------------------------- bounds
MaxInput == 2        \* positional arguments per invocation
MaxPlugins == 2      \* --plugin selections per invocation
MaxSelections == 3   \* selections per list for the Normalizer on its own

\* ------------------------------------------------------------- JS values
\* A JS value is a string or an object; an object holds its own enumerable
\* properties as <<key, value>> pairs in OrdinaryOwnPropertyKeys order.  An
\* array is an object whose keys are the indices "0", "1", ...
Str(s) == [t |-> "string", s |-> s, items |-> <<>>]
Obj(items) == [t |-> "object", s |-> "", items |-> items]

IndexKeys == <<"0", "1", "2", "3", "4", "5", "6", "7">>
IsIndex(k) == \E i \in 1..Len(IndexKeys) : IndexKeys[i] = k
IndexOf(k) == CHOOSE i \in 1..Len(IndexKeys) : IndexKeys[i] = k

Arr(elems) ==
    [t |-> "array", s |-> "",
     items |-> [i \in 1..Len(elems) |-> <<IndexKeys[i], elems[i]>>]]

Elems(a) == [i \in 1..Len(a.items) |-> a.items[i][2]]

typeof(v) == IF v.t = "string" THEN "string" ELSE "object"

HasKey(items, k) == \E i \in 1..Len(items) : items[i][1] = k

\* Key k sorts before key j in own-property order when both are new:
\* integer indices ascending come first, then strings in insertion order.
Before(k, j) == IsIndex(k) /\ (~IsIndex(j) \/ IndexOf(k) < IndexOf(j))

\* Variant of SetProp: an overwritten key moves to the end (delete, then set).
SetProp_moveToEnd(items, k, v) ==
    LET rest == SelectSeq(items, LAMBDA it : it[1] # k)
        n == Cardinality({i \in 1..Len(rest) : ~Before(k, rest[i][1])})
    IN SubSeq(rest, 1, n) \o << <<k, v>> >> \o SubSeq(rest, n + 1, Len(rest))

\* target[k] = v: an existing key keeps its position, a new one is inserted.
SetProp(items, k, v) ==
    IF HasKey(items, k)
    THEN [i \in 1..Len(items) |->
            IF items[i][1] = k THEN <<k, v>> ELSE items[i]]
    ELSE LET n == Cardinality({i \in 1..Len(items) : ~Before(k, items[i][1])})
         IN SubSeq(items, 1, n) \o << <<k, v>> >> \o SubSeq(items, n + 1, Len(items))

\* Variant of AssignItems: a key the target already has is left alone.
RECURSIVE AssignItems_keepExisting(_, _)
AssignItems_keepExisting(items, src) ==
    IF src = <<>> THEN items
    ELSE AssignItems_keepExisting(
            IF HasKey(items, Head(src)[1]) THEN items
            ELSE SetProp(items, Head(src)[1], Head(src)[2]),
            Tail(src))

RECURSIVE AssignItems(_, _)
AssignItems(items, src) ==
    IF src = <<>> THEN items
    ELSE AssignItems(SetProp(items, Head(src)[1], Head(src)[2]), Tail(src))

\* Object.assign(target, source)
ObjectAssign(target, source) == Obj(AssignItems(target.items, source.items))

\* arrify(value)
arrify(v) == IF v.t = "array" THEN Elems(v) ELSE <<v>>

\* lodash.pairs(object): [[key, value], ...] in key order
pairs(o) == Arr([i \in 1..Len(o.items) |->
                    Arr(<<Str(o.items[i][1]), o.items[i][2]>>)])

\* The value merged for one element of the list: the element itself when it
\* is an object, else {[v]: {}}.
Merged(v) ==
    IF typeof(v) = "object" THEN v ELSE Obj(<< <<v.s, Obj(<<>>)>> >>)

RECURSIVE MergeAll(_, _)
MergeAll(pluginOptionsMap, vs) ==
    IF vs = <<>> THEN pluginOptionsMap
    ELSE MergeAll(ObjectAssign(pluginOptionsMap, Merged(Head(vs))), Tail(vs))

normalizePluginOptions(p) == pairs(MergeAll(Obj(<<>>), arrify(p)))

\* ------------------------------------------------------ plugin selections
PluginNames == {"gifsicle", "svgo"}
OptionValues == {Obj(<<>>), Obj(<< <<"quality", Str("0.1")>> >>)}

\* A selection is a bare name or a single-key mapping name -> options.
Bare(n) == Str(n)
Mapping(n, o) == Obj(<< <<n, o>> >>)
Selections ==
    {Bare(n) : n \in PluginNames}
        \cup {Mapping(n, o) : n \in PluginNames, o \in OptionValues}

\* The selections an invocation draws --plugin from.
CliSelections ==
    {Bare("svgo"), Mapping("gifsicle", Obj(<< <<"quality", Str("0.1")>> >>))}

SeqsUpTo(S, n) == UNION {[1..k -> S] : k \in 0..n}

\* Name and options a selection stands for.
SelName(v) == IF v.t = "string" THEN v.s ELSE v.items[1][1]
SelOptions(v) == IF v.t = "string" THEN Obj(<<>>) ELSE v.items[1][2]

\* ------------------------------------------------------ files and bytes
Files == {"a.png", "b.png"}

\* Bytes are kept symbolically: where they came from and the plugin handles
\* applied to them so far, in order.
Content(src) == [src |-> src, applied |-> <<>>]
NoData == Content("")
StdinBuffer == Content("stdin")

\* A plugin handle: the factory of imagemin-<name> called with its options.
Handle(name, options) == [name |-> name, options |-> options]

\* transform(bytes) of one handle
ApplyPlugin(h, c) == [c EXCEPT !.applied = Append(@, h)]

\* imagemin's pipe: the output of plugin i feeds plugin i+1
RECURSIVE ApplyChain(_, _)
ApplyChain(hs, c) ==
    IF hs = <<>> THEN c ELSE ApplyChain(Tail(hs), ApplyPlugin(Head(hs), c))

\* One entry of process.stdout / process.stderr.
Entry(kind, text, name, n, data) ==
    [kind |-> kind, text |-> text, name |-> name, n |-> n, data |-> data]
Bytes(data) == Entry("bytes", "", "", 0, data)
Line(text) == Entry("text", text, "", 0, NoData)
UnknownPlugin(name) == Entry("text", "Unknown plugin / npm install -g imagemin-", name, 0, NoData)
Summary(n) == Entry("text", "image(s) minified", "", n, NoData)
Report(file, buff) == Entry("text", "-> bytes", file, 0, buff)

\* The sequences of distinct files the file-matching collaborator can return.
Matches == {m \in SeqsUpTo(Files, Cardinality(Files)) :
                \A i, j \in 1..Len(m) : i # j => m[i] # m[j]}

\* ------------------------------------------------------------ main flow
\* Variant of PreconditionFails: the overwrite-without-files test is missing.
PreconditionFails_ttyOnly(inputLength, tty, ow) == inputLength = 0 /\ tty

\* Variant of PreconditionFails: the terminal-without-files test is missing.
PreconditionFails_overwriteOnly(inputLength, tty, ow) == inputLength = 0 /\ ow

\* The check at the top of the script (before the async IIFE).
PreconditionFails(inputLength, tty, ow) ==
    (inputLength = 0 /\ tty) \/ (inputLength = 0 /\ ow)

\* Variant of Dispatch: the output directory is tested before the overwrite flag.
Dispatch_outDirFirst(flags) ==
    IF flags.outDir THEN "run"
    ELSE IF flags.overwrite THEN "runOverwrite" ELSE "run"

\* The function the IIFE calls for cli.flags.
Dispatch(flags) == IF flags.overwrite THEN "runOverwrite" ELSE "run"

cliFlags == [outDir |-> outDir, overwrite |-> overwrite]

\* The ([plugin, options]) element i of the normalized list.
PluginName(po, i) == Elems(Elems(po)[i])[1].s
PluginOpts(po, i) == Elems(Elems(po)[i])[2]

\* Variant of Handles: the handles are collected as the loads resolve.
Handles_completionOrder(po) ==
    [k \in 1..Len(resolved) |->
        Handle(PluginName(po, resolved[k]), PluginOpts(po, resolved[k]))]

\* What Promise.all resolves to: one handle per entry, in list order.
Handles(po) ==
    [i \in 1..Len(po.items) |-> Handle(PluginName(po, i), PluginOpts(po, i))]

\* Variant of Outcome: no test for several results without a directory.
Outcome_noConflict(hasOutDir, n) ==
    IF ~hasOutDir /\ n = 0 THEN "noop"
    ELSE IF ~hasOutDir THEN "stdout"
    ELSE "summary"

\* Variant of Outcome: the conflict test reads files.length >= 1.
Outcome_conflictAtOne(hasOutDir, n) ==
    IF ~hasOutDir /\ n = 0 THEN "noop"
    ELSE IF ~hasOutDir /\ n >= 1 THEN "conflict"
    ELSE IF ~hasOutDir THEN "stdout"
    ELSE "summary"

\* Variant of Outcome: the early return for zero results is missing and the
\* conflict test reads files.length !== 1.
Outcome_conflictAtZero(hasOutDir, n) ==
    IF ~hasOutDir /\ n # 1 THEN "conflict"
    ELSE IF ~hasOutDir THEN "stdout"
    ELSE "summary"

\* Variant of Outcome: zero results return silently with a directory too.
Outcome_zeroSilent(hasOutDir, n) ==
    IF n = 0 THEN "noop"
    ELSE IF ~hasOutDir /\ n > 1 THEN "conflict"
    ELSE IF ~hasOutDir THEN "stdout"
    ELSE "summary"

\* lines 114-128: what run does with n results
Outcome(hasOutDir, n) ==
    IF ~hasOutDir /\ n = 0 THEN "noop"
    ELSE IF ~hasOutDir /\ n > 1 THEN "conflict"
    ELSE IF ~hasOutDir THEN "stdout"
    ELSE "summary"

\* Variant of WriteBuffer: the plugins are not handed to imagemin.buffer.
WriteBuffer_rawInput(out, input, hs) == Append(out, Bytes(input))

\* line 98: process.stdout.write(await imagemin.buffer(input, {plugins}))
WriteBuffer(out, input, hs) == Append(out, Bytes(ApplyChain(hs, input)))

\* Variant of console_log: the line is printed with console.error.
console_log_toStderr(streams, e) ==
    [out |-> streams.out, err |-> Append(streams.err, e)]

\* console.log(line): the line goes to process.stdout.
console_log(streams, e) ==
    [out |-> Append(streams.out, e), err |-> streams.err]

\* The two output streams of the process.
Streams == [out |-> stdout, err |-> stderr]

\* Variant of Stop: the call is missing.
Stop_missing(s) == s

\* spinner.stop()
Stop(s) == IF s = "spinning" THEN "stopped" ELSE s

\* Variant of WriteFile: the bytes read (origFile) are written back.
WriteFile_origBytes(d, file, buff) == d

\* fs.writeFile(file, buff) completing
WriteFile(d, file, buff) == [d EXCEPT ![file] = buff]

Alive == pc \in {"returned", "rejected"}
InFlight(i) == tasks[i].st \in {"transforming", "writing"}

Init ==
    /\ cliInput \in SeqsUpTo(Files, MaxInput)
    \* line 164 reads process.stdin.isTTY only when cli.input is empty
    /\ isTTY \in (IF cliInput = <<>> THEN BOOLEAN ELSE {FALSE})
    /\ outDir \in BOOLEAN
    /\ overwrite \in BOOLEAN
    /\ plugin \in {Arr(s) : s \in SeqsUpTo(CliSelections, MaxPlugins)}
    /\ pc = "start"
    /\ fn = "none"
    /\ started = {}
    /\ pluginOptions = Arr(<<>>)
    /\ loads = <<>>
    /\ resolved = <<>>
    /\ plugins = <<>>
    /\ executorCalls = 0
    /\ spinner = "idle"
    /\ stdout = <<>>
    /\ stderr = <<>>
    /\ disk = [f \in Files |-> Content(f)]
    /\ dest = {}
    /\ files = <<>>
    /\ tasks = <<>>
    /\ errors = {}
    /\ exitCode = -1
    /\ replayArg = "none"
    /\ replay = Arr(<<>>)

\* process.exit(code)
Exit(code) == pc' = "exited" /\ exitCode' = code

\* A rejection nobody handles: the process dies with status 1 (the default
\* of current Node releases) or only warns and goes on (older releases).
Unhandled(next) ==
    \/ Exit(1)
    \/ pc' = next /\ exitCode' = exitCode

\* lines 164-167
RejectInput ==
    /\ pc = "start"
    /\ PreconditionFails(Len(cliInput), isTTY, overwrite)
    /\ stderr' = Append(stderr, Line("Specify at least one file path"))
    /\ Exit(1)
    /\ UNCHANGED <<cliInput, isTTY, outDir, overwrite, plugin, fn, started,
                   pluginOptions, loads, resolved, plugins, executorCalls, spinner,
                   stdout, disk, dest, files, tasks, errors, replayArg, replay>>

\* The call of f: normalizePluginOptions, then requirePlugins issues every load.
Call(f) ==
    /\ pc = "start"
    /\ ~PreconditionFails(Len(cliInput), isTTY, overwrite)
    /\ Dispatch(cliFlags) = f
    /\ fn' = f
    /\ pluginOptions' = normalizePluginOptions(plugin)
    /\ loads' = [i \in 1..Len(pluginOptions'.items) |-> "pending"]
    /\ pc' = "loading"
    /\ UNCHANGED <<cliInput, isTTY, outDir, overwrite, plugin, started, resolved,
                   plugins, executorCalls, spinner, stdout, stderr, disk,
                   dest, files, tasks, errors, exitCode, replayArg, replay>>

\* lines 177-181, 93-94
CallRun == Call("run")

\* lines 171-175, 134-135
CallRunOverwrite == Call("runOverwrite")

\* lines 61-62: import resolved and the factory returned
LoadResolve(i) ==
    /\ pc = "loading"
    /\ loads[i] = "pending"
    /\ loads' = [loads EXCEPT ![i] = "loaded"]
    /\ resolved' = Append(resolved, i)
    /\ UNCHANGED <<cliInput, isTTY, outDir, overwrite, plugin, pc, fn, started,
                   pluginOptions, plugins, executorCalls, spinner, stdout,
                   stderr, disk, dest, files, tasks, errors, exitCode, replayArg, replay>>

\* Variant of LoadReject: the message is printed but process.exit is missing.
LoadReject_noExit(i) ==
    /\ pc = "loading"
    /\ loads[i] = "pending"
    /\ loads' = [loads EXCEPT ![i] = "failed"]
    /\ stderr' = Append(stderr, UnknownPlugin(PluginName(pluginOptions, i)))
    /\ UNCHANGED <<cliInput, isTTY, outDir, overwrite, plugin, pc, fn, started,
                   pluginOptions, resolved, plugins, executorCalls, spinner,
                   stdout, disk, dest, files, tasks, errors, exitCode,
                   replayArg, replay>>

\* lines 63-73: import or factory threw
LoadReject(i) ==
    /\ pc = "loading"
    /\ loads[i] = "pending"
    /\ loads' = [loads EXCEPT ![i] = "failed"]
    /\ stderr' = Append(stderr, UnknownPlugin(PluginName(pluginOptions, i)))
    /\ Exit(1)
    /\ UNCHANGED <<cliInput, isTTY, outDir, overwrite, plugin, fn, started,
                   pluginOptions, resolved, plugins, executorCalls, spinner,
                   stdout, disk, dest, files, tasks, errors, replayArg, replay>>

\* Promise.all(...) resolved
AllLoaded == pc = "loading" /\ \A i \in 1..Len(loads) : loads[i] = "loaded"

\* lines 95-98: input is the stdin buffer
RunBuffer ==
    /\ AllLoaded
    /\ fn = "run"
    /\ cliInput = <<>>
    /\ plugins' = Handles(pluginOptions)
    /\ started' = started \cup {"buffer"}
    /\ executorCalls' = executorCalls + 1
    /\ pc' = "bufferPending"
    /\ UNCHANGED <<cliInput, isTTY, outDir, overwrite, plugin, fn,
                   pluginOptions, loads, resolved, spinner, stdout, stderr, disk, dest,
                   files, tasks, errors, exitCode, replayArg, replay>>

\* lines 98-99
BufferResolve ==
    /\ pc = "bufferPending"
    /\ stdout' = WriteBuffer(stdout, StdinBuffer, plugins)
    /\ pc' = "returned"
    /\ UNCHANGED <<cliInput, isTTY, outDir, overwrite, plugin, fn, started,
                   pluginOptions, loads, resolved, plugins, executorCalls, spinner,
                   stderr, disk, dest, files, tasks, errors, exitCode, replayArg, replay>>

\* line 98: imagemin.buffer rejected, run rejects
BufferReject ==
    /\ pc = "bufferPending"
    /\ errors' = errors \cup {"executor"}
    /\ Unhandled("rejected")
    /\ UNCHANGED <<cliInput, isTTY, outDir, overwrite, plugin, fn, started,
                   pluginOptions, loads, resolved, plugins, executorCalls, spinner,
                   stdout, stderr, disk, dest, files, tasks, replayArg, replay>>

\* lines 95-108: input is the list of paths
RunFiles ==
    /\ AllLoaded
    /\ fn = "run"
    /\ cliInput # <<>>
    /\ plugins' = Handles(pluginOptions)
    /\ started' = started \cup {"files"}
    /\ spinner' = IF outDir THEN "spinning" ELSE spinner
    /\ executorCalls' = executorCalls + 1
    /\ pc' = "filesPending"
    /\ UNCHANGED <<cliInput, isTTY, outDir, overwrite, plugin, fn,
                   pluginOptions, loads, resolved, stdout, stderr, disk, dest, files,
                   tasks, errors, exitCode, replayArg, replay>>

\* lines 108, 114-130: imagemin resolved with one result per matched file
FilesResolve(m) ==
    /\ pc = "filesPending"
    /\ files' = [i \in 1..Len(m) |->
                    [sourcePath |-> m[i], data |-> ApplyChain(plugins, disk[m[i]])]]
    /\ dest' = IF outDir THEN {m[i] : i \in 1..Len(m)} ELSE dest
    /\ IF Outcome(outDir, Len(m)) = "noop"
       THEN /\ pc' = "returned"
            /\ UNCHANGED <<spinner, stdout, stderr, exitCode>>
       ELSE IF Outcome(outDir, Len(m)) = "conflict"
       THEN /\ stderr' = Append(stderr,
                    Line("Cannot write multiple files to stdout, specify --out-dir"))
            /\ Exit(1)
            /\ UNCHANGED <<spinner, stdout>>
       ELSE IF Outcome(outDir, Len(m)) = "stdout"
       THEN /\ stdout' = Append(stdout, Bytes(files'[1].data))
            /\ pc' = "returned"
            /\ UNCHANGED <<spinner, stderr, exitCode>>
       ELSE /\ spinner' = Stop(spinner)
            /\ stdout' = console_log(Streams, Summary(Len(files'))).out
            /\ stderr' = console_log(Streams, Summary(Len(files'))).err
            /\ pc' = "returned"
            /\ UNCHANGED exitCode
    /\ UNCHANGED <<cliInput, isTTY, outDir, overwrite, plugin, fn, started,
                   pluginOptions, loads, resolved, plugins, executorCalls, disk, tasks,
                   errors, replayArg, replay>>

\* Variant of FilesReject: the catch swallows the error and run goes on.
FilesReject_swallow ==
    /\ pc = "filesPending"
    /\ spinner' = Stop(spinner)
    /\ dest' \in IF outDir THEN SUBSET Files ELSE {dest}
    /\ errors' = errors \cup {"executor"}
    /\ stdout' = console_log(Streams, Summary(0)).out
    /\ stderr' = console_log(Streams, Summary(0)).err
    /\ pc' = "returned"
    /\ UNCHANGED <<cliInput, isTTY, outDir, overwrite, plugin, fn, started,
                   pluginOptions, loads, resolved, plugins, executorCalls,
                   disk, files, tasks, exitCode, replayArg, replay>>

\* lines 109-112: imagemin rejected; it may have written some results already
FilesReject ==
    /\ pc = "filesPending"
    /\ spinner' = Stop(spinner)
    /\ dest' \in IF outDir THEN SUBSET Files ELSE {dest}
    /\ errors' = errors \cup {"executor"}
    /\ Unhandled("rejected")
    /\ UNCHANGED <<cliInput, isTTY, outDir, overwrite, plugin, fn, started,
                   pluginOptions, loads, resolved, plugins, executorCalls, stdout,
                   stderr, disk, files, tasks, replayArg, replay>>

\* Variant of Issued: the transform is awaited inside the loop.
Issued_awaited(file, data) ==
    [file |-> file, data |-> data, st |-> "writing",
     buff |-> ApplyChain(Handles(pluginOptions), data)]

\* lines 142-143: the bytes read and the transform issued for them, not awaited
Issued(file, data) ==
    [file |-> file, data |-> data, st |-> "transforming", buff |-> NoData]

\* Variant of OverwriteLoop: a failed read does not end the iteration, the
\* files after it are read and transformed too.
OverwriteLoop_noAbort(k) ==
    /\ AllLoaded
    /\ fn = "runOverwrite"
    /\ plugins' = Handles(pluginOptions)
    /\ started' = started \cup {"overwrite"}
    /\ tasks' = [i \in 1..Len(cliInput) |->
                    Issued(cliInput[i], disk[cliInput[i]])]
    /\ executorCalls' = executorCalls + Len(cliInput)
    /\ spinner' = Stop("spinning")
    /\ IF k = Len(cliInput)
       THEN pc' = "returned" /\ UNCHANGED errors
       ELSE pc' = "rejected" /\ errors' = errors \cup {"read"}
    /\ UNCHANGED <<cliInput, isTTY, outDir, overwrite, plugin, fn,
                   pluginOptions, loads, resolved, stdout, stderr, disk, dest, files,
                   exitCode, replayArg, replay>>

\* lines 136-161, one synchronous turn: the spinner starts, the first k files
\* are read and their transforms issued, the spinner stops.  k < input.length
\* when readFileSync throws on file k+1: runOverwrite rejects, and the
\* callbacks already queued run before the rejection is found unhandled.
OverwriteLoop(k) ==
    /\ AllLoaded
    /\ fn = "runOverwrite"
    /\ plugins' = Handles(pluginOptions)
    /\ started' = started \cup {"overwrite"}
    /\ tasks' = [i \in 1..k |-> Issued(cliInput[i], disk[cliInput[i]])]
    /\ executorCalls' = executorCalls + k
    /\ spinner' = Stop("spinning")
    /\ IF k = Len(cliInput)
       THEN pc' = "returned" /\ UNCHANGED errors
       ELSE pc' = "rejected" /\ errors' = errors \cup {"read"}
    /\ UNCHANGED <<cliInput, isTTY, outDir, overwrite, plugin, fn,
                   pluginOptions, loads, resolved, stdout, stderr, disk, dest, files,
                   exitCode, replayArg, replay>>

\* lines 169-183: nothing handles the rejection of runOverwrite.  A runtime
\* that terminates on unhandled rejections ends the process with status 1;
\* how many of the transforms and writes issued before get through first
\* depends on the plugins and on the runtime.  A runtime that only warns
\* never takes this step.
RejectionExit ==
    /\ pc = "rejected"
    /\ "read" \in errors
    /\ Exit(1)
    /\ UNCHANGED <<cliInput, isTTY, outDir, overwrite, plugin, fn, started,
                   pluginOptions, loads, resolved, plugins, executorCalls, spinner,
                   stdout, stderr, disk, dest, files, tasks, errors, replayArg, replay>>

\* Variant of TaskInput: the file is read again when the transform runs.
TaskInput_rereads(i) == disk[tasks[i].file]

\* lines 142-143: the transform works on the buffer read in the loop
TaskInput(i) == tasks[i].data

\* lines 144-146: the transform of task i resolved; report, issue the write
TransformResolve(i) ==
    /\ Alive
    /\ tasks[i].st = "transforming"
    /\ LET buff == ApplyChain(plugins, TaskInput(i))
       IN /\ stdout' = console_log(Streams, Report(tasks[i].file, buff)).out
          /\ stderr' = console_log(Streams, Report(tasks[i].file, buff)).err
          /\ tasks' = [tasks EXCEPT ![i].st = "writing", ![i].buff = buff]
    /\ UNCHANGED <<cliInput, isTTY, outDir, overwrite, plugin, pc, fn, started,
                   pluginOptions, loads, resolved, plugins, executorCalls, spinner,
                   disk, dest, files, errors, exitCode, replayArg, replay>>

\* lines 152-154: the transform of task i rejected; the rethrow is unhandled
TransformReject(i) ==
    /\ Alive
    /\ tasks[i].st = "transforming"
    /\ tasks' = [tasks EXCEPT ![i].st = "failed"]
    /\ errors' = errors \cup {"transform"}
    /\ Unhandled(pc)
    /\ UNCHANGED <<cliInput, isTTY, outDir, overwrite, plugin, fn, started,
                   pluginOptions, loads, resolved, plugins, executorCalls, spinner,
                   stdout, stderr, disk, dest, files, replayArg, replay>>

\* lines 146-150: the write of task i completed without error
WriteComplete(i) ==
    /\ Alive
    /\ tasks[i].st = "writing"
    /\ disk' = WriteFile(disk, tasks[i].file, tasks[i].buff)
    /\ tasks' = [tasks EXCEPT ![i].st = "written"]
    /\ UNCHANGED <<cliInput, isTTY, outDir, overwrite, plugin, pc, fn, started,
                   pluginOptions, loads, resolved, plugins, executorCalls, spinner,
                   stdout, stderr, dest, files, errors, exitCode, replayArg, replay>>

\* lines 147-149: the write failed; the throw in the callback is uncaught
WriteFail(i) ==
    /\ Alive
    /\ tasks[i].st = "writing"
    /\ tasks' = [tasks EXCEPT ![i].st = "failed"]
    /\ errors' = errors \cup {"write"}
    /\ Exit(1)
    /\ UNCHANGED <<cliInput, isTTY, outDir, overwrite, plugin, fn, started,
                   pluginOptions, loads, resolved, plugins, executorCalls, spinner,
                   stdout, stderr, disk, dest, files, replayArg, replay>>

\* Nothing is pending any more: the process ends by itself.
ExitNatural ==
    /\ Alive
    /\ \A i \in 1..Len(tasks) : ~InFlight(i)
    /\ Exit(0)
    /\ UNCHANGED <<cliInput, isTTY, outDir, overwrite, plugin, fn, started,
                   pluginOptions, loads, resolved, plugins, executorCalls, spinner,
                   stdout, stderr, disk, dest, files, tasks, errors, replayArg, replay>>

Next ==
    \/ RejectInput
    \/ CallRun
    \/ CallRunOverwrite
    \/ \E i \in 1..Len(loads) : LoadResolve(i)
    \/ \E i \in 1..Len(loads) : LoadReject(i)
    \/ RunBuffer
    \/ BufferResolve
    \/ BufferReject
    \/ RunFiles
    \/ \E m \in Matches : FilesResolve(m)
    \/ FilesReject
    \/ \E k \in 0..Len(cliInput) : OverwriteLoop(k)
    \/ RejectionExit
    \/ \E i \in 1..Len(tasks) : TransformResolve(i)
    \/ \E i \in 1..Len(tasks) : TransformReject(i)
    \/ \E i \in 1..Len(tasks) : WriteComplete(i)
    \/ \E i \in 1..Len(tasks) : WriteFail(i)
    \/ ExitNatural

Spec == Init /\ [][Next]_vars

\* Every ready callback is eventually run by the event loop.
FairSpec == Spec /\ WF_vars(Next)

\* ------------------------------------------- the Normalizer on its own
NormInit ==
    /\ plugin \in {Arr(s) : s \in SeqsUpTo(Selections, MaxSelections)}
    /\ pc = "norm"
    /\ cliInput = <<>>
    /\ isTTY = FALSE
    /\ outDir = FALSE
    /\ overwrite = FALSE
    /\ fn = "none"
    /\ started = {}
    /\ pluginOptions = Arr(<<>>)
    /\ loads = <<>>
    /\ resolved = <<>>
    /\ plugins = <<>>
    /\ executorCalls = 0
    /\ spinner = "idle"
    /\ stdout = <<>>
    /\ stderr = <<>>
    /\ disk = [f \in Files |-> Content(f)]
    /\ dest = {}
    /\ files = <<>>
    /\ tasks = <<>>
    /\ errors = {}
    /\ exitCode = -1
    /\ replayArg = "none"
    /\ replay = Arr(<<>>)

\* line 93 / 134: pluginOptions = normalizePluginOptions(plugin)
Normalize ==
    /\ pc = "norm"
    /\ pluginOptions' = normalizePluginOptions(plugin)
    /\ pc' = "normalized"
    /\ UNCHANGED <<cliInput, isTTY, outDir, overwrite, plugin, fn, started,
                   loads, resolved, plugins, executorCalls, spinner, stdout, stderr,
                   disk, dest, files, tasks, errors, exitCode, replayArg, replay>>

\* The list of [name, options] pairs re-expressed as single-key mappings.
AsMappings(po) ==
    Arr([i \in 1..Len(po.items) |-> Mapping(PluginName(po, i), PluginOpts(po, i))])

\* normalizePluginOptions applied to the list it returned, either as it is
\* (the pairs) or re-expressed as mappings
Replay(how) ==
    /\ pc = "normalized"
    /\ replayArg' = how
    /\ replay' = normalizePluginOptions(
                    IF how = "pairs" THEN pluginOptions ELSE AsMappings(pluginOptions))
    /\ pc' = "replayed"
    /\ UNCHANGED <<cliInput, isTTY, outDir, overwrite, plugin, fn, started,
                   pluginOptions, loads, resolved, plugins, executorCalls, spinner,
                   stdout, stderr, disk, dest, files, tasks, errors, exitCode>>

NormNext == Normalize \/ Replay("pairs") \/ Replay("mappings")

NormSpec == NormInit /\ [][NormNext]_vars

\* ----------------------------------------------------------- properties
InStream(stream, e) == \E i \in 1..Len(stream) : stream[i] = e
LoadFailed == \E i \in 1..Len(loads) : loads[i] = "failed"
Untouched == \A f \in Files : disk[f] = Content(f)
Minified(f) == ApplyChain(plugins, Content(f))

\* C1 as stated: for file inputs with both an output directory and the
\* overwrite flag, the router selects the destination-directory path (the
\* file path of run), and no original input file is rewritten in place.
C1_DestinationBeforeOverwrite ==
    (cliInput # <<>> /\ outDir /\ overwrite /\ started # {})
        => (started = {"files"} /\ fn = "run" /\ tasks = <<>> /\ Untouched)

\* C1 amended: for file inputs with the overwrite flag set the main flow
\* calls runOverwrite whether or not an output directory is given (the
\* overwrite flag is tested first): run is never entered, nothing is written
\* beneath the output directory, no summary is printed, and every completed
\* write has replaced the original file by its minified bytes.
C1_OverwriteBeforeDestination ==
    (cliInput # <<>> /\ outDir /\ overwrite)
        => /\ fn \in {"none", "runOverwrite"}
           /\ started \subseteq {"overwrite"}
           /\ pc \notin {"bufferPending", "filesPending"}
           /\ dest = {}
           /\ files = <<>>
           /\ \A n \in 0..Len(cliInput) : ~InStream(stdout, Summary(n))
           /\ \A i \in 1..Len(tasks) :
                tasks[i].st = "written" => disk[tasks[i].file] = Minified(tasks[i].file)

C1_Witness ==
    /\ cliInput # <<>> /\ outDir /\ overwrite
    /\ \E i \in 1..Len(tasks) :
         /\ tasks[i].st = "written"
         /\ disk[tasks[i].file] # Content(tasks[i].file)

\* The invocations the script refuses, and the path the others take.
RejectedUpFront == cliInput = <<>> /\ (isTTY \/ overwrite)
SelectedPath ==
    IF overwrite THEN "overwrite" ELSE IF cliInput = <<>> THEN "buffer" ELSE "files"
C2_Paths ==
    /\ Cardinality(started) <= 1
    /\ RejectedUpFront =>
        /\ fn = "none" /\ started = {} /\ executorCalls = 0
        /\ pc \in {"start", "exited"}
        /\ pc = "exited" => exitCode = 1
    /\ ~RejectedUpFront =>
        /\ started \subseteq {SelectedPath}
        /\ (pc \in {"bufferPending", "filesPending", "returned", "rejected"}
            \/ (pc = "exited" /\ ~LoadFailed)) => started = {SelectedPath}

\* C2: an invocation is rejected up front (no files and a terminal on stdin,
\* or no files and the overwrite flag) and then enters no run path, or it
\* enters exactly one of the buffer, files and overwrite paths, the one its
\* input kind and flags select, and never leaves it for another.
C2_ExactlyOnePath ==
    [](C2_Paths) /\ [][started # {} => started' = started]_vars

C2_Witness ==
    pc = "exited" /\ exitCode = 0 /\ started = {"buffer"} /\ outDir /\ plugins # <<>>

\* C3: when the load of a plugin fails, the Unknown plugin message naming
\* that plugin is on stderr, the process has exited with status 1, and
\* imagemin / imagemin.buffer has not been called; the executor is called
\* only once every load resolved, in whatever order the loads completed.
C3_UnresolvedPluginIsFatal ==
    /\ \A i \in 1..Len(loads) :
         loads[i] = "failed" =>
            /\ stderr = <<UnknownPlugin(PluginName(pluginOptions, i))>>
            /\ pc = "exited" /\ exitCode = 1
            /\ executorCalls = 0 /\ started = {} /\ stdout = <<>>
            /\ Untouched /\ dest = {}
    /\ (executorCalls > 0 \/ started # {}) =>
         \A i \in 1..Len(loads) : loads[i] = "loaded"

C3_Witness ==
    /\ Len(loads) = 2
    /\ loads[1] = "loaded" /\ loads[2] = "failed"
    /\ stderr = <<UnknownPlugin(PluginName(pluginOptions, 2))>>
    /\ exitCode = 1

AllRewritten == \A i \in 1..Len(cliInput) : disk[cliInput[i]] = Minified(cliInput[i])

\* C4: once runOverwrite has issued its transforms, then, unless a read, a
\* transform or a write fails, eventually and from then on every input
\* file holds the plugin chain applied to the content it had at the start.
C4_EventuallyRewritten ==
    ("overwrite" \in started) ~> (errors # {} \/ [](AllRewritten))

\* Both files rewritten, the second reported before the first.
C4_Witness ==
    /\ pc = "exited" /\ errors = {} /\ "overwrite" \in started
    /\ Len(tasks) = 2 /\ tasks[1].file # tasks[2].file
    /\ plugins # <<>>
    /\ AllRewritten
    /\ stdout[1].name = tasks[2].file

\* C5: when run, without an output directory, gets 2 or more result files,
\* the conflict message is on stderr, the process has exited with status 1
\* and stdout has received nothing.
C5_MultipleFilesConflict ==
    /\ (fn = "run" /\ ~outDir /\ Len(files) >= 2) =>
        /\ pc = "exited" /\ exitCode = 1
        /\ stderr = <<Line("Cannot write multiple files to stdout, specify --out-dir")>>
        /\ stdout = <<>>
    /\ (fn = "run" /\ ~outDir /\ pc = "filesPending") => stdout = <<>>

C5_Witness ==
    /\ ~outDir /\ ~overwrite /\ Len(cliInput) = 2 /\ Len(files) = 2
    /\ pc = "exited" /\ exitCode = 1

\* The one input file of an invocation that has exactly one.
TheFile == IF fn = "run" THEN files[1].sourcePath ELSE cliInput[1]

\* C6 as stated: with exactly 1 input file and no output directory, a run
\* that ended without failure has written exactly that file's minified
\* bytes to stdout.
C6_SingleFileToStdout ==
    (/\ Len(cliInput) = 1 /\ ~outDir
     /\ pc = "exited" /\ errors = {} /\ ~LoadFailed
     /\ fn = "run" => Len(files) = 1)
        => (exitCode = 0 /\ stdout = <<Bytes(Minified(TheFile))>>)

\* C6 amended: with exactly 1 result file, no output directory and the
\* overwrite flag not set, run returns normally having written exactly one
\* buffer, that file's minified bytes, to stdout, and nothing else anywhere.
C6_SingleFileToStdoutNoOverwrite ==
    (fn = "run" /\ ~outDir /\ Len(files) = 1)
        => /\ ~overwrite
           /\ pc \in {"returned", "exited"}
           /\ exitCode \in {-1, 0}
           /\ stdout = <<Bytes(Minified(files[1].sourcePath))>>
           /\ stderr = <<>>
           /\ Untouched /\ dest = {}

C6_Witness ==
    /\ fn = "run" /\ ~outDir /\ Len(cliInput) = 1 /\ Len(files) = 1
    /\ plugins # <<>>
    /\ pc = "exited" /\ exitCode = 0

\* C7: on the buffer path stdout receives at most one entry, exactly the
\* minified stdin buffer once imagemin.buffer resolved; no file is created
\* or rewritten, the spinner is never started and no summary is printed,
\* with or without an output-directory flag.
C7_BufferMode ==
    ("buffer" \in started) =>
        /\ spinner = "idle"
        /\ Untouched /\ dest = {} /\ files = <<>> /\ tasks = <<>>
        /\ stderr = <<>>
        /\ IF pc = "returned" \/ (pc = "exited" /\ errors = {})
           THEN stdout = <<Bytes(ApplyChain(Handles(pluginOptions), StdinBuffer))>>
           ELSE stdout = <<>>

C7_Witness ==
    /\ "buffer" \in started /\ outDir
    /\ pc = "returned"
    /\ Len(plugins) = 2
    /\ Len(stdout) = 1

\* C8 as stated: given input files and an output directory, a run that
\* ended without failure has reported N image(s) minified, N the number of
\* files beneath the directory, and has written no image bytes to stdout.
C8_SummaryCountsResults ==
    (cliInput # <<>> /\ outDir /\ pc = "exited" /\ errors = {} /\ ~LoadFailed)
        => /\ InStream(stdout, Summary(Cardinality(dest)))
           /\ \A i \in 1..Len(stdout) : stdout[i].kind # "bytes"

\* C8 amended: given input files, an output directory and the overwrite
\* flag not set, a run that returned has printed exactly the summary with
\* N the number of results, which is the number of files written beneath
\* the directory, and no image bytes.
C8_SummaryCountsResultsNoOverwrite ==
    (/\ cliInput # <<>> /\ outDir /\ ~overwrite
     /\ pc \in {"returned", "exited"} /\ errors = {} /\ ~LoadFailed)
        => /\ stdout = <<Summary(Len(files))>>
           /\ dest = {files[i].sourcePath : i \in 1..Len(files)}
           /\ Cardinality(dest) = Len(files)
           /\ spinner = "stopped"
           /\ stderr = <<>>

C8_Witness ==
    /\ cliInput # <<>> /\ outDir /\ ~overwrite
    /\ pc = "exited" /\ exitCode = 0
    /\ Len(files) = 2
    /\ stdout = <<Summary(2)>>

\* The selections handed to the Normalizer and what it returned.
In == Elems(plugin)
Out == Elems(pluginOptions)
InNames == {SelName(In[i]) : i \in 1..Len(In)}
FirstOf(n) == CHOOSE i \in 1..Len(In) :
    SelName(In[i]) = n /\ \A j \in 1..(i - 1) : SelName(In[j]) # n
LastOf(n) == CHOOSE i \in 1..Len(In) :
    SelName(In[i]) = n /\ \A j \in (i + 1)..Len(In) : SelName(In[j]) # n
Normalized == pc \in {"normalized", "replayed"}

\* C9: the Normalizer returns one [name, options] pair per distinct name,
\* ordered by the first occurrence of each name, carrying the options of
\* the name's last occurrence, which are {} when that occurrence is bare.
C9_OneEntryPerName ==
    Normalized =>
        /\ Len(Out) = Cardinality(InNames)
        /\ \A i \in 1..Len(Out) :
             /\ Out[i].t = "array" /\ Len(Out[i].items) = 2
             /\ PluginName(pluginOptions, i) \in InNames
             /\ LET last == In[LastOf(PluginName(pluginOptions, i))]
                IN /\ PluginOpts(pluginOptions, i) = SelOptions(last)
                   /\ last.t = "string" => PluginOpts(pluginOptions, i) = Obj(<<>>)
        /\ \A i, j \in 1..Len(Out) :
             i < j => FirstOf(PluginName(pluginOptions, i))
                        < FirstOf(PluginName(pluginOptions, j))

C9_Witness ==
    /\ pc = "normalized"
    /\ Len(In) = 3
    /\ SelName(In[1]) = SelName(In[3]) /\ SelName(In[2]) # SelName(In[1])
    /\ In[1].t = "object" /\ In[3].t = "string"
    /\ SelOptions(In[1]) # Obj(<<>>)
    /\ Len(Out) = 2
    /\ PluginName(pluginOptions, 1) = SelName(In[1])
    /\ PluginOpts(pluginOptions, 1) = Obj(<<>>)

\* C10 as stated: the Normalizer applied to the list of pairs it returned
\* yields that list again.
C10_FixedPointOnPairs ==
    (pc = "replayed" /\ replayArg = "pairs") => replay = pluginOptions

\* C10 amended: the Normalizer applied to its output re-expressed as
\* single-key mappings yields that output again; applied to the pairs
\* themselves it yields the output only when the output is empty, and
\* otherwise [["0", name], ["1", options]] of the last pair.
C10_FixedPointOnMappings ==
    /\ (pc = "replayed" /\ replayArg = "mappings") => replay = pluginOptions
    /\ (pc = "replayed" /\ replayArg = "pairs") =>
         IF Out = <<>> THEN replay = pluginOptions
         ELSE /\ replay # pluginOptions
              /\ replay = Arr(<<Arr(<<Str("0"), Str(PluginName(pluginOptions, Len(Out)))>>),
                                Arr(<<Str("1"), PluginOpts(pluginOptions, Len(Out))>>)>>)

C10_Witness ==
    /\ pc = "replayed" /\ replayArg = "mappings"
    /\ Len(Out) = 2
    /\ PluginOpts(pluginOptions, 1) # Obj(<<>>)
    /\ replay = pluginOptions

Diagnostics ==
    {Line("Specify at least one file path"),
     Line("Cannot write multiple files to stdout, specify --out-dir")}
        \cup {UnknownPlugin(n) : n \in PluginNames}

\* C11 as stated: stdout carries nothing but image bytes; the summary and
\* the per-file reports of the directory and overwrite modes are on stderr.
C11_TextOnStderr ==
    \A i \in 1..Len(stdout) : stdout[i].kind = "bytes"

\* C11 amended: the summary of the directory mode and the per-file reports
\* of the overwrite mode are written to stdout; stderr carries only the
\* error diagnostics; image bytes reach stdout only on the buffer path and
\* on the files path without a directory, and then stdout holds nothing else.
C11_TextOnStdout ==
    /\ \A i \in 1..Len(stderr) : stderr[i] \in Diagnostics
    /\ \A i \in 1..Len(stdout) :
         stdout[i].kind = "bytes" =>
            /\ started = {"buffer"} \/ (started = {"files"} /\ ~outDir)
            /\ Len(stdout) = 1
    /\ ("files" \in started /\ outDir) =>
         stdout \in {<<>>, <<Summary(Len(files))>>}
    /\ ("overwrite" \in started) =>
         \A i \in 1..Len(stdout) :
            \E j \in 1..Len(tasks) : stdout[i] = Report(tasks[j].file, tasks[j].buff)

C11_Witness ==
    /\ "overwrite" \in started
    /\ Len(stdout) = 2 /\ stdout[1].text = "-> bytes"
    /\ stderr = <<>>
    /\ pc = "exited" /\ exitCode = 0

\* C12: with no file arguments and a terminal on stdin, or no file arguments
\* and the overwrite flag, the invocation ends with the usage message and
\* status 1 before run or runOverwrite is called: no plugin is normalised
\* or loaded, no run path is entered and the executor is never called.
C12_NoInputIsRejected ==
    (cliInput = <<>> /\ (isTTY \/ overwrite)) =>
        /\ fn = "none"
        /\ pluginOptions = Arr(<<>>) /\ loads = <<>> /\ resolved = <<>>
        /\ plugins = <<>>
        /\ started = {} /\ executorCalls = 0
        /\ stdout = <<>> /\ spinner = "idle"
        /\ pc \in {"start", "exited"}
        /\ pc = "exited" =>
            /\ exitCode = 1
            /\ stderr = <<Line("Specify at least one file path")>>

C12_Witness ==
    /\ cliInput = <<>> /\ ~isTTY /\ overwrite
    /\ Len(plugin.items) = 2
    /\ pc = "exited" /\ exitCode = 1
    /\ stderr = <<Line("Specify at least one file path")>>

\* C13: the spinner is spinning only while run waits for imagemin with an
\* output directory; once run or runOverwrite has returned or rejected, a
\* failure has surfaced or the process has exited, it is not spinning, and
\* a path that started it has left it stopped.
C13_SpinnerStoppedOnEveryExit ==
    /\ spinner = "spinning" => (pc = "filesPending" /\ outDir /\ errors = {})
    /\ pc \in {"returned", "rejected", "exited"} => spinner # "spinning"
    /\ (errors # {} \/ exitCode = 1) => spinner # "spinning"
    /\ (/\ pc \in {"returned", "rejected", "exited"}
        /\ (("files" \in started /\ outDir) \/ "overwrite" \in started))
            => spinner = "stopped"

C13_Witness ==
    /\ "files" \in started /\ outDir
    /\ errors = {"executor"}
    /\ spinner = "stopped"
    /\ pc = "exited" /\ exitCode = 1

\* Every buffer the executor has produced so far.
Produced ==
    {stdout[i].data : i \in {j \in 1..Len(stdout) : stdout[j].kind = "bytes"}}
        \cup {files[i].data : i \in 1..Len(files)}
        \cup {tasks[i].buff : i \in {j \in 1..Len(tasks) : tasks[j].st \in {"writing", "written"}}}

\* C14: whatever the order in which the loads resolved, the handles handed
\* to the executor are those of the normalized list in list order, and every
\* buffer it produced had the plugins applied in that order.
C14_HandlesInListOrder ==
    started # {} =>
        /\ Len(plugins) = Len(Out)
        /\ \A i \in 1..Len(plugins) :
             /\ plugins[i].name = PluginName(pluginOptions, i)
             /\ plugins[i].options = PluginOpts(pluginOptions, i)
        /\ \A b \in Produced :
             /\ Len(b.applied) = Len(Out)
             /\ \A i \in 1..Len(Out) : b.applied[i].name = PluginName(pluginOptions, i)

C14_Witness ==
    /\ resolved = <<2, 1>>
    /\ started = {"buffer"} /\ pc = "returned"
    /\ Len(stdout) = 1
    /\ stdout[1].data.applied[1].name = PluginName(pluginOptions, 1)
    /\ stdout[1].data.applied[2].name = PluginName(pluginOptions, 2)

\* C15: the step in which runOverwrite ends (returns, or rejects on a failed
\* read) stops the spinner and leaves every transform it issued unresolved:
\* nothing has been reported or written yet, and no per-file failure has
\* surfaced, so the run looks done while all its writes are still to come.
C15_OverwriteReturnsWithoutJoin ==
    [][("overwrite" \notin started /\ "overwrite" \in started') =>
          /\ spinner' = "stopped"
          /\ pc' \in {"returned", "rejected", "exited"}
          /\ \A i \in 1..Len(tasks') : tasks'[i].st = "transforming"
          /\ pc' = "returned" => Len(tasks') = Len(cliInput)
          /\ disk' = disk /\ stdout' = stdout
          /\ errors' \subseteq {"read"}]_vars

\* runOverwrite has returned, one write is done while another transform is still pending.
C15_Witness ==
    /\ fn = "runOverwrite" /\ pc = "returned" /\ spinner = "stopped"
    /\ errors = {}
    /\ Len(tasks) = 2
    /\ tasks[2].st = "written" /\ tasks[1].st = "transforming"

\* C16: when the executor rejects in buffer mode or in the file/destination
\* path, run rejects (it never returns), standard output stays empty (no
\* image bytes, no summary), no result is kept and the spinner is not left
\* spinning.
C16_TransformFailureAborts ==
    "executor" \in errors =>
        /\ fn = "run"
        /\ pc \in {"rejected", "exited"}
        /\ stdout = <<>>
        /\ files = <<>>
        /\ spinner # "spinning"
        /\ executorCalls = 1

\* The executor rejected in the destination path after the spinner started.
C16_Witness ==
    /\ "executor" \in errors /\ started = {"files"} /\ outDir
    /\ pc = "rejected" /\ spinner = "stopped" /\ dest # {}

\* The file path of run has resolved with no result and no directory asked.
ZeroResultsNoDir ==
    /\ started = {"files"} /\ ~outDir
    /\ pc \in {"returned", "exited"}
    /\ errors = {}
    /\ files = <<>>

\* C17: when the file path resolves to zero results and no output directory
\* was requested, nothing is written to standard output or standard error,
\* the spinner never starts, nothing is written anywhere, and the process
\* ends only by itself with status 0, never with status 1.
C17_ZeroResultsSilentNoOp ==
    ZeroResultsNoDir =>
        /\ stdout = <<>> /\ stderr = <<>>
        /\ spinner = "idle"
        /\ exitCode \in {-1, 0}
        /\ pc = "exited" => exitCode = 0
        /\ dest = {} /\ Untouched

\* run returned from the file path with no result, no directory, and plugins.
C17_Witness ==
    /\ ZeroResultsNoDir /\ pc = "returned" /\ cliInput # <<>>
    /\ plugins # <<>> /\ executorCalls = 1

\* Every task holds the content its file had at run start, every transform
\* result is the transform of that content, and every file on disk is either
\* as it was or minified exactly once.
ReadAtStart ==
    fn = "runOverwrite" =>
        /\ \A i \in 1..Len(tasks) :
              /\ tasks[i].file = cliInput[i]
              /\ tasks[i].data = Content(tasks[i].file)
              /\ tasks[i].st \in {"writing", "written"} =>
                    tasks[i].buff = Minified(tasks[i].file)
        /\ \A f \in Files : disk[f] \in {Content(f), Minified(f)}

\* Once the loop has run, the set of tasks and the bytes they read are fixed.
NoLateRead ==
    "overwrite" \in started =>
        /\ Len(tasks') = Len(tasks)
        /\ \A i \in 1..Len(tasks) :
              tasks'[i].file = tasks[i].file /\ tasks'[i].data = tasks[i].data

\* C18: in overwrite mode all reads happen in the loop, before any transform
\* result or write, so each write carries the transform of the content
\* present at run start; a path listed twice is written twice with the same
\* bytes and is never minified twice over.
C18_ReadsBeforeAnyWrite == []ReadAtStart /\ [][NoLateRead]_vars

\* One path listed twice, both writes done, one plugin at least.
C18_Witness ==
    /\ fn = "runOverwrite" /\ Len(tasks) = 2
    /\ tasks[1].file = tasks[2].file
    /\ tasks[1].st = "written" /\ tasks[2].st = "written"
    /\ tasks[1].buff = tasks[2].buff
    /\ plugins # <<>>
    /\ disk[tasks[1].file] = Minified(tasks[1].file)
    /\ disk[tasks[1].file] # Content(tasks[1].file)

\* The files the loop got to before the failed read.
Reached == {tasks[i].file : i \in 1..Len(tasks)}

\* C19 as stated: after a failed read, and with no other failure, the process
\* never ends before every file read so far has been overwritten.
C19_EarlierFilesOverwritten ==
    (pc = "exited" /\ errors = {"read"}) =>
        \A i \in 1..Len(tasks) :
            /\ tasks[i].st = "written"
            /\ disk[tasks[i].file] = Minified(tasks[i].file)

\* C19: if reading input file k fails, runOverwrite rejects with the spinner
\* stopped, exactly the files before k have been read and handed to the
\* executor, and no other file is ever written.  The transforms issued stay
\* in flight: each file before k is left as it was or minified once, and all
\* of them are overwritten when the process runs on to its natural end;
\* a process that dies of the unhandled rejection may leave any of them
\* unwritten.
C19_ReadFailureAbortsIteration ==
    "read" \in errors =>
        /\ fn = "runOverwrite"
        /\ pc \in {"rejected", "exited"}
        /\ spinner = "stopped"
        /\ Len(tasks) < Len(cliInput)
        /\ \A i \in 1..Len(tasks) : tasks[i].file = cliInput[i]
        /\ executorCalls = Len(tasks)
        /\ \A f \in Files \ Reached : disk[f] = Content(f)
        /\ \A f \in Reached : disk[f] \in {Content(f), Minified(f)}
        /\ (pc = "exited" /\ exitCode = 0 /\ errors = {"read"}) =>
              \A f \in Reached : disk[f] = Minified(f)

\* The second read failed; the first file was rewritten, the second is as
\* it was, and the process has ended.
C19_Witness ==
    /\ errors = {"read"} /\ pc = "exited"
    /\ Len(cliInput) = 2 /\ cliInput[1] # cliInput[2]
    /\ Len(tasks) = 1 /\ tasks[1].st = "written"
    /\ plugins # <<>>
    /\ disk[cliInput[1]] = Minified(cliInput[1])
    /\ disk[cliInput[1]] # Content(cliInput[1])
    /\ disk[cliInput[2]] = Content(cliInput[2])

\* The positions of standard error that hold an "Unknown plugin" message.
UnknownReports ==
    {i \in 1..Len(stderr) : \E n \in PluginNames : stderr[i] = UnknownPlugin(n)}

\* The loads that failed.
FailedLoads == {i \in 1..Len(loads) : loads[i] = "failed"}

\* C20: however many plugin names cannot be resolved, at most one load is
\* ever seen to fail and at most one "Unknown plugin" message is reported:
\* the first failure to complete names its plugin and ends the process with
\* status 1, whatever the state of the other loads.
C20_AtMostOneUnknownPlugin ==
    /\ Cardinality(UnknownReports) <= 1
    /\ Cardinality(FailedLoads) = Cardinality(UnknownReports)
    /\ \A i \in FailedLoads :
          /\ stderr = <<UnknownPlugin(PluginName(pluginOptions, i))>>
          /\ pc = "exited" /\ exitCode = 1

\* Two plugins selected; the load of the second failed first and is the one
\* reported, the load of the first never completed.
C20_Witness ==
    /\ loads = <<"pending", "failed">>
    /\ PluginName(pluginOptions, 1) # PluginName(pluginOptions, 2)
    /\ stderr = <<UnknownPlugin(PluginName(pluginOptions, 2))>>
    /\ pc = "exited"

====
